---- MODULE Spec2Model ----
(***************************************************************************)
(* NoteApp (src/src/App.tsx): five collections held in React state, their  *)
(* CRUD handlers, the calendar form that links an event to a highlight or  *)
(* a resource, and the localStorage mirror (load effect and saveData).      *)
(*                                                                         *)
(* Strings the handlers only trim or cut are modelled by their shape:      *)
(* [ws |-> leading white space, rest |-> the characters after it].         *)
(* An id is the pair <<Date.now(), Math.random()>> that generateId glues   *)
(* into one string.  The colour pickers are left at their initial value.   *)
(***************************************************************************)
EXTENDS Integers, Sequences, FiniteSets, TLC

VARIABLES highlights, todos, events, resources, ideapadNotes,
          currentView, selectedItem, isLoading,
          storage, writesMayThrow, wrote,
          now, cal, last, error, download, reading

vars == <<highlights, todos, events, resources, ideapadNotes,
          currentView, selectedItem, isLoading,
          storage, writesMayThrow, wrote, now, cal, last, error, download, reading>>

(* ------------------------------ bounds --------------------------------- *)

\* entities alive at once, over the five collections
MaxItems == 2
\* how many months the calendar is turned away while events are added
MaxTurn == 1
\* last value of the clock Date.now()
MaxNow == 2
\* files whose read is pending at once
MaxReads == 2

\* values Math.random() takes
Rands == {1, 2}
\* how many months the calendar is turned away from the clock's month
MaxMonthSteps == 12
\* days of the displayed month a cell can be clicked for
Days == {1, 2}

(* ------------------------------ values --------------------------------- *)

Undefined == <<>>
Null == [type |-> "null"]

Views == {"dashboard", "highlights", "todos", "calendar", "ideapad", "resources"}

Text(ws, rest) == [ws |-> ws, rest |-> rest]

\* quickWriteText.substring(0, 30)
NameLimit == 30

EmptyText == Text(0, 0)
BlankText == Text(1, 0)
PlainText == Text(0, 1)
PaddedText == Text(NameLimit, 1)

\* what a text field can hold when a form is submitted
Texts == {EmptyText, BlankText, PlainText}
\* what the quick-write textarea can hold
QuickTexts == Texts \cup {PaddedText}

Min(a, b) == IF a < b THEN a ELSE b

\* String.prototype.trim (trailing white space is not represented)
Trim(s) == Text(0, s.rest)

\* !s : the empty string is the only falsy string
Falsy(s) == s.ws + s.rest = 0

\* s.substring(0, n)
Substring(s, n) == Text(Min(s.ws, n), Min(s.rest, n - Min(s.ws, n)))

\* COLORS[k], as the index k
COLORS(k) == k

\* Date.now().toString(36) + Math.random().toString(36).substring(2)
generateId(t, r) == <<t, r>>

\* the calendar day an instant of the clock falls on
DateOf(t) == (t + 1) \div 2

\* new Date().toISOString() and new Date(local).toISOString()
ISOString(d, t) == [date |-> d, time |-> t]

\* hl.datetime.split('T')[0]
DatePart(dt) == dt.date

\* what the time input can be set to
EventTimes == {"09:30", "12:00"}

\* the hour and minute new Date(t).toLocaleTimeString shows: of the two
\* instants of a day the first is at midnight, the second at noon
ClockTime(t) == IF t % 2 = 1 THEN "00:00" ELSE "12:00"

\* new Date(e.date).getTime(), counted in seconds to stay within the integers
\* TLC has
DateMs(d) == d * 86400

(* ----------------------------- entities -------------------------------- *)

Highlight(id, text, datetime, color, createdAt) ==
  [id |-> id, text |-> text, datetime |-> datetime, color |-> color,
   createdAt |-> createdAt]

Todo(id, text, completed, color, createdAt) ==
  [id |-> id, text |-> text, completed |-> completed, color |-> color,
   createdAt |-> createdAt]

CalendarEvent(id, title, date, color, time, relH, relR, createdAt) ==
  [id |-> id, title |-> title, date |-> date, color |-> color, time |-> time,
   relatedHighlightId |-> relH, relatedResourceId |-> relR,
   createdAt |-> createdAt]

Resource(id, name, type, content, color, createdAt) ==
  [id |-> id, name |-> name, type |-> type, content |-> content,
   color |-> color, createdAt |-> createdAt]

IdeaNote(id, text, color, createdAt) ==
  [id |-> id, text |-> text, color |-> color, createdAt |-> createdAt]

(* ------------------------- Array.prototype.sort ------------------------ *)

\* Number(b)
Number(b) == IF b THEN 1 ELSE 0

\* x || y on numbers
OrElse(x, y) == IF x # 0 THEN x ELSE y

\* the comparator with its operands swapped
CmpCreatedAsc(a, b) == a.createdAt - b.createdAt

\* (a, b) => b.createdAt - a.createdAt
CmpCreatedDesc(a, b) == b.createdAt - a.createdAt

\* (a, b) => Number(a.completed) - Number(b.completed) || b.createdAt - a.createdAt
CmpTodo(a, b) ==
  OrElse(Number(a.completed) - Number(b.completed), b.createdAt - a.createdAt)

\* the comparator of the events with the date left out
CmpEventByCreation(a, b) == b.createdAt - a.createdAt

\* (a, b) => new Date(a.date).getTime() - new Date(b.date).getTime() || b.createdAt - a.createdAt
CmpEvent(a, b) ==
  OrElse(DateMs(a.date) - DateMs(b.date), b.createdAt - a.createdAt)

Cmp(kind, a, b) ==
  CASE kind = "todo" -> CmpTodo(a, b)
    [] kind = "event" -> CmpEvent(a, b)
    [] OTHER -> CmpCreatedDesc(a, b)

RECURSIVE InsertSorted(_, _, _)
\* x goes before the first element that must follow it, after its equals
InsertSorted(kind, s, x) ==
  IF s = <<>> THEN <<x>>
  ELSE IF Cmp(kind, Head(s), x) > 0 THEN <<x>> \o s
  ELSE <<Head(s)>> \o InsertSorted(kind, Tail(s), x)

RECURSIVE Sort(_, _)
\* the stable sort of s under the comparator of its kind
Sort(kind, s) ==
  IF s = <<>> THEN <<>>
  ELSE InsertSorted(kind, Sort(kind, SubSeq(s, 1, Len(s) - 1)), s[Len(s)])

(* ------------------------- the state updaters -------------------------- *)

\* prev => [...prev, newHighlight].sort(...)
HighlightsAdd(prev, x) == Sort("highlight", Append(prev, x))

\* a filter that reads the instant the id was made at: createdAt
KeepByCreation(x, id) == x.createdAt # id[1]

\* h => h.id !== id
KeepById(x, id) == x.id # id

\* prev => prev.filter(x => x.id !== id)
FilterById(prev, id) == SelectSeq(prev, LAMBDA x : KeepById(x, id))

\* the filter of deleteHighlight reading the other relation
KeepForHighlightByResource(e, id) == e.relatedResourceId # id

\* e => e.relatedHighlightId !== id
KeepForHighlight(e, id) == e.relatedHighlightId # id

\* e => e.relatedResourceId !== id
KeepForResource(e, id) == e.relatedResourceId # id

\* prev => prev.filter(e => e.relatedHighlightId !== id)
EventsDeleteHighlight(prev, id) ==
  SelectSeq(prev, LAMBDA e : KeepForHighlight(e, id))

\* prev => prev.filter(e => e.relatedResourceId !== id)
EventsDeleteResource(prev, id) ==
  SelectSeq(prev, LAMBDA e : KeepForResource(e, id))

\* prev => [...prev, newTodo].sort(...)
TodosAdd(prev, x) == Sort("todo", Append(prev, x))

\* a toggle that sets completed instead of flipping it
ToggleOneSetsDone(t, id) == IF t.id = id THEN [t EXCEPT !.completed = TRUE] ELSE t

\* a toggle without the test of the id
ToggleEvery(t, id) == [t EXCEPT !.completed = ~t.completed]

\* t => (t.id === id ? {...t, completed: !t.completed} : t)
ToggleOne(t, id) == IF t.id = id THEN [t EXCEPT !.completed = ~t.completed] ELSE t

\* toggleTodo without its sort
TodosToggleUnsorted(prev, id) == [i \in 1..Len(prev) |-> ToggleOne(prev[i], id)]

\* prev => prev.map(...).sort(...)
TodosToggle(prev, id) ==
  Sort("todo", [i \in 1..Len(prev) |-> ToggleOne(prev[i], id)])

\* prev => [...prev, newEvent].sort(...)
EventsAdd(prev, x) == Sort("event", Append(prev, x))

\* prev => [...prev, newResource].sort(...)
ResourcesAdd(prev, x) == Sort("resource", Append(prev, x))

\* prev => [...prev, newNote].sort(...)
NotesAdd(prev, x) == Sort("ideapadNote", Append(prev, x))

(* ----------------------------- localStorage ---------------------------- *)

\* the keys, in the order saveData writes them; storage[i] is what
\* localStorage holds under StorageKeys[i]
StorageKeys ==
  <<"appData_highlights", "appData_todos", "appData_events",
    "appData_resources", "appData_ideapadNotes">>

\* getItem returns null
Absent == [kind |-> "absent", items |-> <<>>]
\* a stored string JSON.parse throws on
Corrupt == [kind |-> "corrupt", items |-> <<>>]
\* a stored string that is the JSON text of an array of objects
Json(items) == [kind |-> "json", items |-> items]

\* the properties of CalendarEvent that may be undefined
OptionalFields == {"relatedHighlightId", "relatedResourceId"}

\* JSON.stringify of one entity: a property whose value is undefined is left out
StringifyObject(o) ==
  LET dropped == {f \in DOMAIN o \cap OptionalFields : o[f] = Undefined}
  IN  [f \in DOMAIN o \ dropped |-> o[f]]

\* JSON.stringify(collection)
Stringify(items) == Json([i \in 1..Len(items) |-> StringifyObject(items[i])])

\* one parsed object as the handlers read it: a property it lacks reads undefined
ParseObject(key, o) ==
  LET fields == IF StorageKeys[key] = "appData_events" THEN DOMAIN o \cup OptionalFields
                ELSE DOMAIN o
  IN  [f \in fields |-> IF f \in DOMAIN o THEN o[f] ELSE Undefined]

\* JSON.parse(saved), for a stored string that parses
Parse(key, doc) == [i \in 1..Len(doc.items) |-> ParseObject(key, doc.items[i])]

\* a saveData that leaves out the last key
saveDataFourKeys(loading, st, h, t, e, r, n, k) ==
  IF loading THEN st
  ELSE LET vals == <<h, t, e, r, n>>
       IN  [i \in DOMAIN st |->
              IF i <= k /\ i < Len(StorageKeys) THEN Stringify(vals[i]) ELSE st[i]]

\* a saveData without its isLoading test
saveDataWhileLoading(loading, st, h, t, e, r, n, k) ==
  LET vals == <<h, t, e, r, n>>
  IN  [i \in DOMAIN st |-> IF i <= k THEN Stringify(vals[i]) ELSE st[i]]

\* saveData: nothing while loading; else the five setItem calls in order, of
\* which the first k return and call k + 1, if any, throws into the catch
saveData(loading, st, h, t, e, r, n, k) ==
  IF loading THEN st
  ELSE LET vals == <<h, t, e, r, n>>
       IN  [i \in DOMAIN st |-> IF i <= k THEN Stringify(vals[i]) ELSE st[i]]

\* wrote is how many setItem calls returned in the last saveData that got past
\* the isLoading test; before the first, as if all had
NoSave == Len(StorageKeys)

\* how many setItem calls of one saveData return
WriteOutcomes == IF writesMayThrow THEN 0..Len(StorageKeys) ELSE {Len(StorageKeys)}

\* if (saved) setX(JSON.parse(saved)), for the stored documents that parse
Hydrated(st, key) ==
  IF st[key].kind = "json" THEN Parse(key, st[key]) ELSE <<>>

\* some JSON.parse of the try block throws
LoadThrows(st) == \E key \in DOMAIN st : st[key].kind = "corrupt"

\* the value a collection has after the load effect: the catch block sets all
\* five to [] after whatever the try block had set
Loaded(st, key) == IF LoadThrows(st) THEN <<>> ELSE Hydrated(st, key)

(* --------------------- CalendarSection's own state --------------------- *)

\* useState<string | null>(null) of selectedDate
NoDate == 0

\* the year and the month (0-indexed) of new Date(): the clock stays within
\* the first days of one month
ThisYear == 2024
ThisMonth == 0

\* new Date(year, month, day) for a day every month has: a month index outside
\* 0..11 carries into the year
NewDateWithoutCarry(year, month, day) ==
  [year |-> year, month |-> month % 12, day |-> day]

NewDate(year, month, day) ==
  [year |-> year + (month \div 12), month |-> month % 12, day |-> day]

\* what is read of currentMonthDate: getFullYear() and getMonth()
MonthOf(date) == [year |-> date.year, month |-> date.month]

\* formatDateYYYYMMDD(new Date(year, month, d)) as a day number: d in the
\* clock's month, and 31 more for each month after it
DateStr(m, d) == ((m.year - ThisYear) * 12 + (m.month - ThisMonth)) * 31 + d

CalInit ==
  [currentMonthDate |-> [year |-> ThisYear, month |-> ThisMonth],
   selectedDate |-> NoDate, newEventTime |-> "",
   linkedHighlightId |-> Undefined, linkedResourceId |-> Undefined]

\* a CalendarSection that kept its state over a render of NoteApp
RemountKeepingState(c) == c

\* CalendarSection is declared inside NoteApp's body, so each render of NoteApp
\* makes a new component type and React mounts it afresh, with initial state
Remount(c) == CalInit

\* a push that starts the group of the key anew
PushReplacing(acc, k, x) ==
  IF k \in DOMAIN acc THEN [acc EXCEPT ![k] = <<x>>] ELSE acc @@ (k :> <<x>>)

\* (acc[k] = acc[k] || []).push(x)
Push(acc, k, x) ==
  IF k \in DOMAIN acc THEN [acc EXCEPT ![k] = Append(@, x)] ELSE acc @@ (k :> <<x>>)

RECURSIVE EventsReduce(_, _)
\* s.reduce((acc, event) => ..., {}) over the first n elements, key event.date
EventsReduce(s, n) ==
  IF n = 0 THEN <<>> ELSE Push(EventsReduce(s, n - 1), s[n].date, s[n])

RECURSIVE HighlightsReduce(_, _)
\* s.reduce((acc, hl) => ..., {}) over the first n elements, key the date part
\* of hl.datetime
HighlightsReduce(s, n) ==
  IF n = 0 THEN <<>>
  ELSE Push(HighlightsReduce(s, n - 1), DatePart(s[n].datetime), s[n])

\* acc[dateStr] || []
GroupOf(acc, k) == IF k \in DOMAIN acc THEN acc[k] ELSE <<>>

(* ------------------------------- state --------------------------------- *)

\* the operation that ran last, the id (or item, or file) it made or was given,
\* and what it took out: of a delete the number of events, of openItemPopup
\* the number of selections it replaced
Op(op, arg, removed) == [op |-> op, arg |-> arg, removed |-> removed]

NoOp == Op("none", Undefined, 0)

InitMemory ==
  /\ highlights = <<>>
  /\ todos = <<>>
  /\ events = <<>>
  /\ resources = <<>>
  /\ ideapadNotes = <<>>
  /\ currentView = "dashboard"
  /\ selectedItem = Null
  /\ isLoading = TRUE
  /\ now = 1
  /\ cal = CalInit
  /\ last = NoOp
  /\ wrote = NoSave
  /\ error = Null
  /\ download = Null
  /\ reading = <<>>

\* a first start: nothing stored, and localStorage accepts every write
Init ==
  /\ InitMemory
  /\ storage = [i \in 1..Len(StorageKeys) |-> Absent]
  /\ writesMayThrow = FALSE

Alive ==
  Len(highlights) + Len(todos) + Len(events) + Len(resources) + Len(ideapadNotes)

\* the model holds at most MaxItems entities at once
Room == Alive < MaxItems

IdsOf(s) == {s[i].id : i \in 1..Len(s)}

\* the set-state calls of one handler take effect: NoteApp renders again, the
\* sections mount afresh, and the effect on saveData runs
\* a render in which a throw of setItem takes the state update with it
RenderFromLosingUpdate(st, loading, h, t, e, r, n) ==
  \E k \in WriteOutcomes :
    LET thrown == ~loading /\ k < Len(StorageKeys)
    IN  /\ highlights' = IF thrown THEN highlights ELSE h
        /\ todos' = IF thrown THEN todos ELSE t
        /\ events' = IF thrown THEN events ELSE e
        /\ resources' = IF thrown THEN resources ELSE r
        /\ ideapadNotes' = IF thrown THEN ideapadNotes ELSE n
        /\ cal' = Remount(cal)
        /\ storage' = saveData(loading, st, h, t, e, r, n, k)
        /\ wrote' = IF loading THEN wrote ELSE k

RenderFrom(st, loading, h, t, e, r, n) ==
  /\ highlights' = h
  /\ todos' = t
  /\ events' = e
  /\ resources' = r
  /\ ideapadNotes' = n
  /\ cal' = Remount(cal)
  /\ \E k \in WriteOutcomes :
       /\ storage' = saveData(loading, st, h, t, e, r, n, k)
       /\ wrote' = IF loading THEN wrote ELSE k

Render(loading, h, t, e, r, n) == RenderFrom(storage, loading, h, t, e, r, n)

\* the effects of the first render, in the order they are declared: the load
\* effect reads the five documents, then the save effect calls the saveData
\* of the first render (isLoading true, the collections empty); then NoteApp
\* renders with what was loaded and the save effect runs again
Load ==
  /\ isLoading
  /\ isLoading' = FALSE
  /\ \E k \in WriteOutcomes :
       RenderFrom(saveData(isLoading, storage, highlights, todos, events, resources,
                           ideapadNotes, k),
                  FALSE, Loaded(storage, 1), Loaded(storage, 2), Loaded(storage, 3),
                  Loaded(storage, 4), Loaded(storage, 5))
  /\ UNCHANGED <<currentView, selectedItem, writesMayThrow, now, last, error, download, reading>>

\* Date.now() moves on
Tick ==
  /\ ~isLoading
  /\ now < MaxNow
  /\ now' = now + 1
  /\ UNCHANGED <<highlights, todos, events, resources, ideapadNotes, currentView,
                 selectedItem, isLoading, storage, writesMayThrow, wrote, error, download, reading, cal, last>>

\* a sidebar button: setCurrentView(view); the same view again renders nothing
Navigate(v) ==
  /\ currentView' = v
  /\ cal' = IF v = currentView THEN cal ELSE Remount(cal)
  /\ UNCHANGED <<highlights, todos, events, resources, ideapadNotes,
                 selectedItem, isLoading, storage, writesMayThrow, wrote, error, download, reading, now, last>>

Frame ==
  UNCHANGED <<currentView, selectedItem, isLoading, writesMayThrow, now, error, download, reading>>

(* --------------------------- CRUD operations --------------------------- *)

addHighlight(text, datetime, color, rnd) ==
  LET x == Highlight(generateId(now, rnd), text, datetime, color, now)
  IN  /\ Room
      /\ Render(isLoading, HighlightsAdd(highlights, x), todos, events, resources,
                ideapadNotes)
      /\ last' = Op("addHighlight", x.id, 0)
      /\ Frame

deleteHighlight(id) ==
  /\ Render(isLoading, FilterById(highlights, id), todos,
            EventsDeleteHighlight(events, id), resources, ideapadNotes)
  /\ last' = Op("deleteHighlight", id, Len(events) - Len(EventsDeleteHighlight(events, id)))
  /\ Frame

addTodo(text, color, rnd) ==
  LET x == Todo(generateId(now, rnd), text, FALSE, color, now)
  IN  /\ Room
      /\ Render(isLoading, highlights, TodosAdd(todos, x), events, resources,
                ideapadNotes)
      /\ last' = Op("addTodo", x.id, 0)
      /\ Frame

toggleTodo(id) ==
  /\ Render(isLoading, highlights, TodosToggle(todos, id), events, resources,
            ideapadNotes)
  /\ last' = Op("toggleTodo", id, 0)
  /\ Frame

deleteTodo(id) ==
  /\ Render(isLoading, highlights, FilterById(todos, id), events, resources,
            ideapadNotes)
  /\ last' = Op("deleteTodo", id, 0)
  /\ Frame

addEvent(title, date, color, time, relH, relR, rnd) ==
  LET x == CalendarEvent(generateId(now, rnd), title, date, color, time, relH,
                         relR, now)
  IN  /\ Room
      /\ Render(isLoading, highlights, todos, EventsAdd(events, x), resources,
                ideapadNotes)
      /\ last' = Op("addEvent", x.id, 0)
      /\ Frame

\* a deleteEvent that takes the highlight the event refers to with it
deleteEventWithItsHighlight(id) ==
  LET linked == {events[i].relatedHighlightId :
                   i \in {j \in 1..Len(events) : events[j].id = id}}
  IN  /\ Render(isLoading, SelectSeq(highlights, LAMBDA h : h.id \notin linked), todos,
                FilterById(events, id), resources, ideapadNotes)
      /\ last' = Op("deleteEvent", id, Len(events) - Len(FilterById(events, id)))
      /\ Frame

deleteEvent(id) ==
  /\ Render(isLoading, highlights, todos, FilterById(events, id), resources,
            ideapadNotes)
  /\ last' = Op("deleteEvent", id, Len(events) - Len(FilterById(events, id)))
  /\ Frame

addResource(name, type, content, color, rnd) ==
  LET x == Resource(generateId(now, rnd), name, type, content, color, now)
  IN  /\ Room
      /\ Render(isLoading, highlights, todos, events, ResourcesAdd(resources, x),
                ideapadNotes)
      /\ last' = Op("addResource", x.id, 0)
      /\ Frame

deleteResource(id) ==
  /\ Render(isLoading, highlights, todos, EventsDeleteResource(events, id),
            FilterById(resources, id), ideapadNotes)
  /\ last' = Op("deleteResource", id, Len(events) - Len(EventsDeleteResource(events, id)))
  /\ Frame

addIdeapadNote(text, color, rnd) ==
  LET x == IdeaNote(generateId(now, rnd), text, color, now)
  IN  /\ Room
      /\ Render(isLoading, highlights, todos, events, resources,
                NotesAdd(ideapadNotes, x))
      /\ last' = Op("addIdeapadNote", x.id, 0)
      /\ Frame

deleteIdeapadNote(id) ==
  /\ Render(isLoading, highlights, todos, events, resources,
            FilterById(ideapadNotes, id))
  /\ last' = Op("deleteIdeapadNote", id, 0)
  /\ Frame

(* ------------------------------ the forms ------------------------------ *)

\* the options of the quick-write target select
QuickTargets == {"highlight", "ideapadNote", "todo", "resource"}

\* a quick-write whose case 'highlight' lacks its break and runs on into the
\* case 'todo'
handleQuickWriteSubmitFallingThrough(text, target, rnd) ==
  /\ ~isLoading
  /\ currentView = "dashboard"
  /\ IF Falsy(Trim(text)) THEN UNCHANGED vars
     ELSE CASE target = "highlight" ->
                 LET h == Highlight(generateId(now, rnd), text,
                                    ISOString(DateOf(now), now), COLORS(0), now)
                     t == Todo(generateId(now, rnd), text, FALSE, COLORS(0), now)
                 IN  /\ Room
                     /\ Render(isLoading, HighlightsAdd(highlights, h), TodosAdd(todos, t),
                               events, resources, ideapadNotes)
                     /\ last' = Op("addTodo", t.id, 0)
                     /\ Frame
            [] target = "todo" -> addTodo(text, COLORS(0), rnd)
            [] target = "ideapadNote" -> addIdeapadNote(text, COLORS(0), rnd)
            [] target = "resource" ->
                 addResource(Substring(text, NameLimit), "note", text, COLORS(0), rnd)
            [] OTHER -> UNCHANGED vars

\* Dashboard: the quick-write form is submitted
handleQuickWriteSubmit(text, target, rnd) ==
  /\ ~isLoading
  /\ currentView = "dashboard"
  /\ IF Falsy(Trim(text)) THEN UNCHANGED vars
     ELSE CASE target = "highlight" ->
                 addHighlight(text, ISOString(DateOf(now), now), COLORS(0), rnd)
            [] target = "todo" -> addTodo(text, COLORS(0), rnd)
            [] target = "ideapadNote" -> addIdeapadNote(text, COLORS(0), rnd)
            [] target = "resource" ->
                 addResource(Substring(text, NameLimit), "note", text, COLORS(0), rnd)
            [] OTHER -> UNCHANGED vars

\* HighlightSection: the add button
handleAddHighlight(text, date, rnd) ==
  /\ ~isLoading
  /\ currentView = "highlights"
  /\ IF Falsy(Trim(text)) THEN UNCHANGED vars
     ELSE addHighlight(text, ISOString(date, 0), COLORS(0), rnd)

\* the delete button of a highlight: in HighlightSection on every highlight, in
\* CalendarSection on the highlights of the selected day
clickDeleteHighlight(i) ==
  /\ ~isLoading
  /\ \/ currentView = "highlights"
     \/ /\ currentView = "calendar"
        /\ cal.selectedDate # NoDate
        /\ DatePart(highlights[i].datetime) = cal.selectedDate
  /\ deleteHighlight(highlights[i].id)

\* TodoSection: the add button
handleAddTodo(text, rnd) ==
  /\ ~isLoading
  /\ currentView = "todos"
  /\ IF Falsy(Trim(text)) THEN UNCHANGED vars
     ELSE addTodo(text, COLORS(1), rnd)

\* TodoSection: the checkbox of a todo
clickToggleTodo(i) ==
  /\ ~isLoading
  /\ currentView = "todos"
  /\ toggleTodo(todos[i].id)

\* TodoSection: the delete button of a todo
clickDeleteTodo(i) ==
  /\ ~isLoading
  /\ currentView = "todos"
  /\ deleteTodo(todos[i].id)

\* CalendarSection: the cell of day d of the displayed month is clicked
setSelectedDate(d) ==
  /\ ~isLoading
  /\ currentView = "calendar"
  /\ cal' = [cal EXCEPT !.selectedDate = DateStr(cal.currentMonthDate, d)]
  /\ UNCHANGED <<highlights, todos, events, resources, ideapadNotes, currentView,
                 selectedItem, isLoading, storage, writesMayThrow, wrote, error, download, reading, now, last>>

\* CalendarSection: the time input of the add-event form changes
setEventTime(v) ==
  /\ ~isLoading
  /\ currentView = "calendar"
  /\ cal.selectedDate # NoDate
  /\ cal' = [cal EXCEPT !.newEventTime = v]
  /\ UNCHANGED <<highlights, todos, events, resources, ideapadNotes, currentView,
                 selectedItem, isLoading, storage, writesMayThrow, wrote, error, download, reading, now, last>>

\* months since year 0, to tell how far two displayed months are apart
MonthIndex(m) == m.year * 12 + m.month

\* the changeMonth calls since the calendar showed month start: last holds the
\* month they started from and the sum of their deltas
MonthHistory(delta) ==
  LET at == MonthIndex(cal.currentMonthDate)
      goesOn == /\ last.op = "changeMonth"
                /\ last.arg.start + last.arg.sum = at
  IN  [start |-> IF goesOn THEN last.arg.start ELSE at,
       sum |-> (IF goesOn THEN last.arg.sum ELSE 0) + delta]

\* CalendarSection: the previous-month and next-month buttons
changeMonth(delta) ==
  /\ ~isLoading
  /\ currentView = "calendar"
  /\ cal' = [cal EXCEPT
               !.currentMonthDate =
                  MonthOf(NewDate(cal.currentMonthDate.year,
                                  cal.currentMonthDate.month + delta, 1)),
               !.selectedDate = NoDate]
  /\ last' = Op("changeMonth", MonthHistory(delta), 0)
  /\ UNCHANGED <<highlights, todos, events, resources, ideapadNotes, currentView,
                 selectedItem, isLoading, storage, writesMayThrow, wrote, error, download, reading, now>>

\* CalendarSection: the highlight select changes (v is undefined for its '' option)
changeLinkedHighlight(v) ==
  /\ ~isLoading
  /\ currentView = "calendar"
  /\ cal.selectedDate # NoDate
  /\ cal' = [cal EXCEPT !.linkedHighlightId = v, !.linkedResourceId = Undefined]
  /\ UNCHANGED <<highlights, todos, events, resources, ideapadNotes, currentView,
                 selectedItem, isLoading, storage, writesMayThrow, wrote, error, download, reading, now, last>>

\* a resource select that leaves the highlight select as it is
changeLinkedResourceOnly(v) ==
  /\ ~isLoading
  /\ currentView = "calendar"
  /\ cal.selectedDate # NoDate
  /\ cal' = [cal EXCEPT !.linkedResourceId = v]
  /\ UNCHANGED <<highlights, todos, events, resources, ideapadNotes, currentView,
                 selectedItem, isLoading, storage, writesMayThrow, wrote, error, download, reading, now, last>>

\* CalendarSection: the resource select changes
changeLinkedResource(v) ==
  /\ ~isLoading
  /\ currentView = "calendar"
  /\ cal.selectedDate # NoDate
  /\ cal' = [cal EXCEPT !.linkedResourceId = v, !.linkedHighlightId = Undefined]
  /\ UNCHANGED <<highlights, todos, events, resources, ideapadNotes, currentView,
                 selectedItem, isLoading, storage, writesMayThrow, wrote, error, download, reading, now, last>>

\* CalendarSection: the add-event button
handleAddEvent(title, rnd) ==
  /\ ~isLoading
  /\ currentView = "calendar"
  /\ IF Falsy(Trim(title)) \/ cal.selectedDate = NoDate THEN UNCHANGED vars
     ELSE addEvent(title, cal.selectedDate, COLORS(3), now, cal.linkedHighlightId,
                   cal.linkedResourceId, rnd)

\* CalendarSection: the delete button of an event of the selected day
clickDeleteEvent(i) ==
  /\ ~isLoading
  /\ currentView = "calendar"
  /\ cal.selectedDate # NoDate
  /\ events[i].date = cal.selectedDate
  /\ deleteEvent(events[i].id)

\* IdeapadSection: the add button
handleAddNote(text, rnd) ==
  /\ ~isLoading
  /\ currentView = "ideapad"
  /\ IF Falsy(Trim(text)) THEN UNCHANGED vars
     ELSE addIdeapadNote(text, COLORS(4), rnd)

\* IdeapadSection: the delete button of a note
clickDeleteNote(i) ==
  /\ ~isLoading
  /\ currentView = "ideapad"
  /\ deleteIdeapadNote(ideapadNotes[i].id)

\* ResourcesSection: the add button
handleAddResource(name, type, content, rnd) ==
  /\ ~isLoading
  /\ currentView = "resources"
  /\ IF Falsy(Trim(name)) \/ Falsy(Trim(content)) THEN UNCHANGED vars
     ELSE addResource(name, type, content, COLORS(5), rnd)

\* ResourcesSection: the delete button of a resource
clickDeleteResource(i) ==
  /\ ~isLoading
  /\ currentView = "resources"
  /\ deleteResource(resources[i].id)

(* --------------------------- specifications ---------------------------- *)

QuickWriteOf(texts, targets) ==
  \E text \in texts, target \in targets, rnd \in Rands :
    handleQuickWriteSubmit(text, target, rnd)

QuickWrite(targets) == QuickWriteOf(QuickTexts, targets)

AddHighlight ==
  \E text \in Texts, date \in Days, rnd \in Rands : handleAddHighlight(text, date, rnd)

DeleteHighlight == \E i \in 1..Len(highlights) : clickDeleteHighlight(i)

AddTodo == \E text \in Texts, rnd \in Rands : handleAddTodo(text, rnd)

ToggleTodo == \E i \in 1..Len(todos) : clickToggleTodo(i)

DeleteTodo == \E i \in 1..Len(todos) : clickDeleteTodo(i)

SelectDate == \E d \in Days : setSelectedDate(d)

LinkHighlight == \E v \in IdsOf(highlights) \cup {Undefined} : changeLinkedHighlight(v)

LinkResource == \E v \in IdsOf(resources) \cup {Undefined} : changeLinkedResource(v)

SetEventTime == \E v \in EventTimes : setEventTime(v)

AddEvent == \E title \in Texts, rnd \in Rands : handleAddEvent(title, rnd)

DeleteEvent == \E i \in 1..Len(events) : clickDeleteEvent(i)

AddNote == \E text \in Texts, rnd \in Rands : handleAddNote(text, rnd)

DeleteNote == \E i \in 1..Len(ideapadNotes) : clickDeleteNote(i)

AddResource ==
  \E name \in Texts, type \in {"link", "note"}, content \in Texts, rnd \in Rands :
    handleAddResource(name, type, content, rnd)

DeleteResource == \E i \in 1..Len(resources) : clickDeleteResource(i)

Go(views) == \E v \in views : ~isLoading /\ Navigate(v)

\* the two month buttons, as far as MaxMonthSteps months from the clock's month
Deltas == {-1, 1}

MonthsAway(m) == MonthIndex(m) - MonthIndex(CalInit.currentMonthDate)

ChangeMonth ==
  \E delta \in Deltas :
    /\ MonthsAway(cal.currentMonthDate) + delta \in -MaxMonthSteps..MaxMonthSteps
    /\ changeMonth(delta)

\* what a render of CalendarSection computes from the collections
eventsByDate == EventsReduce(events, Len(events))
highlightsByDate == HighlightsReduce(highlights, Len(highlights))

\* the date keys of the day cells: the days of the displayed month
DayCells == {DateStr(cal.currentMonthDate, d) : d \in Days}

\* the month buttons, as far as MaxTurn months from the clock's month
TurnMonth ==
  \E delta \in Deltas :
    /\ MonthsAway(cal.currentMonthDate) + delta \in -MaxTurn..MaxTurn
    /\ changeMonth(delta)

\* every form and button that changes a collection, in all six views; the
\* month buttons, the item popup and the file import have specifications of
\* their own below
Next ==
  \/ Load
  \/ Tick
  \/ Go(Views)
  \/ QuickWrite(QuickTargets)
  \/ AddHighlight
  \/ DeleteHighlight
  \/ AddTodo
  \/ ToggleTodo
  \/ DeleteTodo
  \/ SelectDate
  \/ LinkHighlight
  \/ LinkResource
  \/ AddEvent
  \/ DeleteEvent
  \/ AddNote
  \/ DeleteNote
  \/ AddResource
  \/ DeleteResource

Spec == Init /\ [][Next]_vars

\* the user stays with the todos: the dashboard and the todo view
NextTodos ==
  \/ Load
  \/ Tick
  \/ Go({"dashboard", "todos"})
  \/ QuickWrite({"todo"})
  \/ AddTodo
  \/ ToggleTodo
  \/ DeleteTodo

SpecTodos == Init /\ [][NextTodos]_vars

\* the user stays with the events and what an event can refer to: the
\* highlight view, the resource view and the calendar
NextCalendar ==
  \/ Load
  \/ Tick
  \/ Go({"highlights", "resources", "calendar"})
  \/ AddHighlight
  \/ DeleteHighlight
  \/ AddResource
  \/ DeleteResource
  \/ SelectDate
  \/ LinkHighlight
  \/ LinkResource
  \/ AddEvent
  \/ DeleteEvent

SpecCalendar == Init /\ [][NextCalendar]_vars

\* the user stays with the views of the three lists kept newest first
NextLists ==
  \/ Load
  \/ Tick
  \/ Go({"highlights", "resources", "ideapad"})
  \/ AddHighlight
  \/ DeleteHighlight
  \/ AddResource
  \/ DeleteResource
  \/ AddNote
  \/ DeleteNote

SpecLists == Init /\ [][NextLists]_vars

\* every collection changes, each change followed by its save: the quick-write
\* form adds to four of them and the calendar form to the events; the todos
\* are toggled and deleted, and the calendar deletes events and highlights
NextSave ==
  \/ Load
  \/ Tick
  \/ Go({"dashboard", "todos", "calendar"})
  \/ QuickWriteOf(Texts, QuickTargets)
  \/ SelectDate
  \/ AddEvent
  \/ DeleteEvent
  \/ DeleteHighlight
  \/ ToggleTodo
  \/ DeleteTodo

SpecSave == Init /\ [][NextSave]_vars

\* the user turns the months of the calendar, clicks days and leaves the
\* calendar for the dashboard and back
NextMonth ==
  \/ Load
  \/ Go({"dashboard", "calendar"})
  \/ SelectDate
  \/ ChangeMonth

SpecMonth == Init /\ [][NextMonth]_vars

\* one text and one instant: the entities of all five collections are added,
\* the todos toggled, and everything deleted, in all six views
NextLifecycle ==
  \/ Load
  \/ Go(Views)
  \/ QuickWriteOf({PlainText}, QuickTargets)
  \/ ToggleTodo
  \/ DeleteTodo
  \/ DeleteHighlight
  \/ DeleteResource
  \/ DeleteNote
  \/ SelectDate
  \/ LinkHighlight
  \/ LinkResource
  \/ AddEvent
  \/ DeleteEvent

SpecLifecycle == Init /\ [][NextLifecycle]_vars

\* the user adds highlights, turns the months of the calendar and adds
\* events to days of the month before, this month and the next
NextGrid ==
  \/ Load
  \/ Go({"highlights", "calendar"})
  \/ AddHighlight
  \/ DeleteHighlight
  \/ SelectDate
  \/ TurnMonth
  \/ AddEvent
  \/ DeleteEvent

SpecGrid == Init /\ [][NextGrid]_vars

(* ------------------------ starting with stored data -------------------- *)

\* what an earlier session may have left under StorageKeys[i]: one entity of
\* the collection, made at instant 0; the stored event refers to the stored
\* highlight
Sample(i) ==
  CASE i = 1 -> <<Highlight(generateId(0, 1), PlainText, ISOString(1, 0), COLORS(0), 0)>>
    [] i = 2 -> <<Todo(generateId(0, 1), PlainText, FALSE, COLORS(1), 0)>>
    [] i = 3 -> <<CalendarEvent(generateId(0, 1), PlainText, 1, COLORS(3), 0,
                                generateId(0, 1), Undefined, 0)>>
    [] i = 4 -> <<Resource(generateId(0, 1), PlainText, "note", PlainText, COLORS(5), 0)>>
    [] OTHER -> <<IdeaNote(generateId(0, 1), PlainText, COLORS(4), 0)>>

\* under each key: nothing, a string that does not parse, or a saved collection
StoredDocs(i) == {Absent, Corrupt, Stringify(Sample(i))}

InitStore ==
  /\ InitMemory
  /\ \E d1 \in StoredDocs(1), d2 \in StoredDocs(2), d3 \in StoredDocs(3),
        d4 \in StoredDocs(4), d5 \in StoredDocs(5) :
        storage = <<d1, d2, d3, d4, d5>>
  /\ writesMayThrow \in BOOLEAN

\* the page is opened again: NoteApp is constructed anew over what is stored
Reload ==
  /\ ~isLoading
  /\ highlights' = <<>>
  /\ todos' = <<>>
  /\ events' = <<>>
  /\ resources' = <<>>
  /\ ideapadNotes' = <<>>
  /\ currentView' = "dashboard"
  /\ selectedItem' = Null
  /\ isLoading' = TRUE
  /\ cal' = CalInit
  /\ last' = NoOp
  /\ wrote' = NoSave
  /\ error' = Null
  /\ UNCHANGED <<storage, writesMayThrow, now, download, reading>>

\* the stored todo is toggled and deleted, each change followed by its save
NextStore ==
  \/ Load
  \/ Reload
  \/ Go({"todos"})
  \/ ToggleTodo
  \/ DeleteTodo

SpecStore == InitStore /\ [][NextStore]_vars

(* ------------------------------ ItemPopup ------------------------------ *)

\* {item, type}
Selection(item, type) == [item |-> item, type |-> type]

\* highlights.slice(0, 3) and the like on the dashboard
DashboardLimit == 3

\* the view the jump button of the popup goes to
ItemView(type) ==
  CASE type = "event" -> "calendar"
    [] type = "highlight" -> "highlights"
    [] type = "ideapadNote" -> "ideapad"
    [] type = "resource" -> "resources"
    [] type = "todo" -> "todos"
    [] OTHER -> "dashboard"

\* the state a popup action leaves alone
PopupFrame ==
  UNCHANGED <<highlights, todos, events, resources, ideapadNotes, isLoading, storage,
              writesMayThrow, wrote, now, error, download, reading>>

\* an openItemPopup that keeps a selection there is
openItemPopupKeepingFirst(item, type) ==
  /\ selectedItem' = IF selectedItem = Null THEN Selection(item, type) ELSE selectedItem
  /\ cal' = Remount(cal)
  /\ last' = Op("openItemPopup", Selection(item, type),
                IF selectedItem = Null THEN 0 ELSE 1)
  /\ UNCHANGED currentView
  /\ PopupFrame

\* setSelectedItem({item, type}): a new object, so NoteApp renders again
openItemPopup(item, type) ==
  /\ selectedItem' = Selection(item, type)
  /\ cal' = Remount(cal)
  /\ last' = Op("openItemPopup", Selection(item, type),
                IF selectedItem = Null THEN 0 ELSE 1)
  /\ UNCHANGED currentView
  /\ PopupFrame

\* a closeItemPopup that takes the shown todo out of the list
closeItemPopupDroppingTodo ==
  /\ selectedItem' = Null
  /\ cal' = IF selectedItem = Null THEN cal ELSE Remount(cal)
  /\ last' = Op("closeItemPopup", Undefined, 0)
  /\ todos' = IF selectedItem # Null /\ selectedItem.type = "todo"
              THEN FilterById(todos, selectedItem.item.id) ELSE todos
  /\ UNCHANGED <<highlights, events, resources, ideapadNotes, currentView, isLoading,
                 storage, writesMayThrow, wrote, now, error, download, reading>>

\* setSelectedItem(null); null over null renders nothing
closeItemPopup ==
  /\ selectedItem' = Null
  /\ cal' = IF selectedItem = Null THEN cal ELSE Remount(cal)
  /\ last' = Op("closeItemPopup", Undefined, 0)
  /\ UNCHANGED currentView
  /\ PopupFrame

\* the jump button of the popup: setCurrentView(view); closeItemPopup()
jumpToView ==
  /\ ~isLoading
  /\ selectedItem # Null
  /\ currentView' = ItemView(selectedItem.type)
  /\ selectedItem' = Null
  /\ cal' = Remount(cal)
  /\ last' = Op("jumpToView", selectedItem.type, 0)
  /\ PopupFrame

\* the overlay, the cross and the close button of the popup
clickClose ==
  /\ ~isLoading
  /\ selectedItem # Null
  /\ closeItemPopup

\* how many of the first i todos are incomplete
Incomplete(i) == Cardinality({j \in 1..i : ~todos[j].completed})

\* the items the current view shows with a click that opens the popup
Clickable ==
  CASE currentView = "dashboard" ->
         {Selection(highlights[i], "highlight") :
            i \in {j \in 1..Len(highlights) : j <= DashboardLimit}}
         \cup {Selection(todos[i], "todo") :
            i \in {j \in 1..Len(todos) :
                     ~todos[j].completed /\ Incomplete(j) <= DashboardLimit}}
         \cup {Selection(events[i], "event") :
            i \in {j \in 1..Len(events) :
                     /\ events[j].date >= DateOf(now)
                     /\ Cardinality({k \in 1..j : events[k].date >= DateOf(now)})
                          <= DashboardLimit}}
    [] currentView = "highlights" ->
         {Selection(highlights[i], "highlight") : i \in 1..Len(highlights)}
    [] currentView = "todos" -> {Selection(todos[i], "todo") : i \in 1..Len(todos)}
    [] currentView = "calendar" ->
         {Selection(events[i], "event") :
            i \in {j \in 1..Len(events) : events[j].date = cal.selectedDate}}
         \cup {Selection(highlights[i], "highlight") :
            i \in {j \in 1..Len(highlights) :
                     DatePart(highlights[j].datetime) = cal.selectedDate}}
    [] currentView = "ideapad" ->
         {Selection(ideapadNotes[i], "ideapadNote") : i \in 1..Len(ideapadNotes)}
    [] OTHER -> {Selection(resources[i], "resource") : i \in 1..Len(resources)}

OpenPopup == \E p \in Clickable : ~isLoading /\ openItemPopup(p.item, p.type)

\* the user looks at todos and highlights in the popup, and goes on changing
\* them while it is open
NextPopup ==
  \/ Load
  \/ Tick
  \/ Go({"dashboard", "todos", "highlights"})
  \/ QuickWriteOf(Texts, {"todo", "highlight"})
  \/ ToggleTodo
  \/ DeleteTodo
  \/ DeleteHighlight
  \/ OpenPopup
  \/ clickClose
  \/ jumpToView

SpecPopup == Init /\ [][NextPopup]_vars

\* the user fills in the add-event form, time input included
NextEventForm ==
  \/ Load
  \/ Tick
  \/ Go({"dashboard", "calendar"})
  \/ SelectDate
  \/ SetEventTime
  \/ AddEvent
  \/ DeleteEvent

SpecEventForm == Init /\ [][NextEventForm]_vars

\* a click on an item of the dashboard's lists while no popup is shown
OpenFromDashboard ==
  /\ selectedItem = Null
  /\ currentView = "dashboard"
  /\ OpenPopup

\* the user writes on the dashboard and may open an item there, then goes
\* through the five sections and adds with their forms, the popup still shown
NextAdd ==
  \/ Load
  \/ Go(Views \ {"dashboard"})
  \/ QuickWrite(QuickTargets)
  \/ OpenFromDashboard
  \/ AddHighlight
  \/ AddTodo
  \/ SelectDate
  \/ AddEvent
  \/ AddNote
  \/ AddResource

SpecAdd == Init /\ [][NextAdd]_vars

(* ------------------------- FileOperations: import ---------------------- *)

\* the fields of the exported document; field i holds the collection that is
\* stored under StorageKeys[i]
CollectionNames == <<"highlights", "todos", "events", "resources", "ideapadNotes">>

\* the text of a file that JSON.parse throws on
NotJsonText == [kind |-> "corrupt", fields |-> <<>>]

\* the JSON text of an object; fields maps the indices of the collection names
\* it has to the JSON arrays they hold
ObjectText(fields) == [kind |-> "object", fields |-> fields]

\* setError('...') of the catch block, and of reader.onerror
InvalidJsonMessage ==
  [type |-> "string", text |-> "the imported data is not a valid JSON file"]
ReadErrorMessage == [type |-> "string", text |-> "the file could not be read"]

\* export: one JSON object with the five collections under their names
Export(h, t, e, r, n) ==
  LET vals == <<h, t, e, r, n>>
  IN  ObjectText([i \in 1..Len(CollectionNames) |-> Stringify(vals[i]).items])

\* JSON.parse(e.target.result) as FileData, for a text that parses
importedData(text) ==
  [i \in DOMAIN text.fields |-> Parse(i, Json(text.fields[i]))]

\* the value onImport gives the collection of field i
Imported(data, i, prev) == IF i \in DOMAIN data THEN data[i] ELSE prev

\* an onImport that empties the collections the document does not name
onImportReplacingAll(data) ==
  Render(isLoading, Imported(data, 1, <<>>), Imported(data, 2, <<>>),
         Imported(data, 3, <<>>), Imported(data, 4, <<>>), Imported(data, 5, <<>>))

\* an onImport that adds what the document holds to what is there
onImportAppending(data) ==
  Render(isLoading, highlights \o Imported(data, 1, <<>>), todos \o Imported(data, 2, <<>>),
         events \o Imported(data, 3, <<>>), resources \o Imported(data, 4, <<>>),
         ideapadNotes \o Imported(data, 5, <<>>))

\* onImport: each collection the document names is replaced by the document's
\* field, verbatim; a collection it does not name is left as it is
onImport(data) ==
  Render(isLoading, Imported(data, 1, highlights), Imported(data, 2, todos),
         Imported(data, 3, events), Imported(data, 4, resources),
         Imported(data, 5, ideapadNotes))

\* a handleImport whose catch block sets no message
handleImportSilently(text) ==
  /\ ~isLoading
  /\ last' = Op("handleImport", text, 0)
  /\ IF text.kind = "object"
     THEN /\ onImport(importedData(text))
          /\ error' = Null
          /\ UNCHANGED <<currentView, selectedItem, isLoading, writesMayThrow, now,
                         download>>
     ELSE UNCHANGED <<highlights, todos, events, resources, ideapadNotes,
                      currentView, selectedItem, isLoading, storage, writesMayThrow,
                      wrote, now, cal, error, download>>

\* handleImport, when the reader has read the file: reader.onload
handleImport(text) ==
  /\ ~isLoading
  /\ last' = Op("handleImport", text, 0)
  /\ IF text.kind = "object"
     THEN /\ onImport(importedData(text))
          /\ error' = Null
          /\ UNCHANGED <<currentView, selectedItem, isLoading, writesMayThrow, now,
                         download>>
     ELSE /\ error' = InvalidJsonMessage
          /\ UNCHANGED <<highlights, todos, events, resources, ideapadNotes,
                         currentView, selectedItem, isLoading, storage, writesMayThrow,
                         wrote, now, cal, download>>

\* handleImport, when the reader fails: reader.onerror
readerError ==
  /\ ~isLoading
  /\ last' = Op("readerError", Undefined, 0)
  /\ error' = ReadErrorMessage
  /\ UNCHANGED <<highlights, todos, events, resources, ideapadNotes, currentView,
                 selectedItem, isLoading, storage, writesMayThrow, wrote, now, cal,
                 download>>

\* the user exports: the file that is downloaded, and the collections it was
\* made of
exportData ==
  /\ ~isLoading
  /\ download' = [text |-> Export(highlights, todos, events, resources, ideapadNotes),
                  of |-> <<highlights, todos, events, resources, ideapadNotes>>]
  /\ UNCHANGED <<highlights, todos, events, resources, ideapadNotes, currentView,
                 selectedItem, isLoading, storage, writesMayThrow, wrote, now, cal,
                 last, error, reading>>

\* files with a todos field only: an empty list, and a list of two todos with
\* the completed one first
TodosOnlyTexts ==
  {ObjectText(2 :> Stringify(<<>>).items),
   ObjectText(2 :> Stringify(<<Todo(generateId(0, 2), PlainText, TRUE, COLORS(1), 0),
                                Todo(generateId(0, 1), PlainText, FALSE, COLORS(1), 0)>>).items)}

\* the files the user can pick or drop
Files ==
  {NotJsonText, ObjectText(<<>>)} \cup TodosOnlyTexts
    \cup (IF download = Null THEN {} ELSE {download.text})

\* a file is picked or dropped and its read completes before anything else
\* happens
Import == \E text \in Files : handleImport(text) /\ UNCHANGED reading

ReadFails == readerError /\ UNCHANGED reading

\* the sequence s without its i-th element
Without(s, i) == SubSeq(s, 1, i - 1) \o SubSeq(s, i + 1, Len(s))

\* handleFileChange and handleDrop: handleImport makes a FileReader, sets its
\* callbacks and calls reader.readAsText(file); the read is pending
readAsText(text) ==
  /\ ~isLoading
  /\ Len(reading) < MaxReads
  /\ reading' = Append(reading, text)
  /\ UNCHANGED <<highlights, todos, events, resources, ideapadNotes, currentView,
                 selectedItem, isLoading, storage, writesMayThrow, wrote, now, cal,
                 last, error, download>>

\* a reader that keeps the message of the attempt before it when it fails
readerFailsQuietly(i) ==
  /\ ~isLoading
  /\ reading' = Without(reading, i)
  /\ last' = Op("readerError", Undefined, 0)
  /\ UNCHANGED <<highlights, todos, events, resources, ideapadNotes, currentView,
                 selectedItem, isLoading, storage, writesMayThrow, wrote, now, cal,
                 error, download>>

\* the i-th pending read fails: its reader calls onerror
readerFails(i) ==
  /\ readerError
  /\ reading' = Without(reading, i)

\* the i-th pending read completes: its reader calls onload with the text
readerLoads(i) ==
  /\ handleImport(reading[i])
  /\ reading' = Without(reading, i)

PickFile == \E text \in Files : readAsText(text)

ReaderLoads == \E i \in 1..Len(reading) : readerLoads(i)

ReaderFails == \E i \in 1..Len(reading) : readerFails(i)

\* an earlier session left any of the five sample documents
InitImport ==
  /\ InitMemory
  /\ \E present \in SUBSET (1..Len(StorageKeys)) :
       storage = [i \in 1..Len(StorageKeys) |->
                    IF i \in present THEN Stringify(Sample(i)) ELSE Absent]
  /\ writesMayThrow = FALSE

\* the user changes the collections, exports them and imports files
NextImport ==
  \/ Load
  \/ Go({"highlights", "todos"})
  \/ DeleteHighlight
  \/ ToggleTodo
  \/ DeleteTodo
  \/ exportData
  \/ Import
  \/ ReadFails

SpecImport == InitImport /\ [][NextImport]_vars

\* the user picks and drops files while reads are pending, and goes on with
\* the todos meanwhile; the reads complete in any order
NextReads ==
  \/ Load
  \/ Go({"todos"})
  \/ ToggleTodo
  \/ DeleteTodo
  \/ PickFile
  \/ ReaderLoads
  \/ ReaderFails

SpecReads == Init /\ [][NextReads]_vars

(* ------------------------------- claims -------------------------------- *)

\* the indices of pre whose element does not have id in the given relation
KeptIndices(pre, field, id) == {i \in 1..Len(pre) : pre[i][field] # id}

\* the j-th smallest member of the index set K
NthOf(K, j) == CHOOSE i \in K : Cardinality({k \in K : k < i}) = j - 1

\* post is pre without the elements that have id in the given relation, the
\* others in their order
RemovesExactly(pre, post, field, id) ==
  LET K == KeptIndices(pre, field, id)
  IN  /\ Len(post) = Cardinality(K)
      /\ \A j \in 1..Len(post) : post[j] = pre[NthOf(K, j)]

C2_NoDanglingRelation ==
  \A i \in 1..Len(events) :
    /\ events[i].relatedHighlightId # Undefined =>
         events[i].relatedHighlightId \in IdsOf(highlights)
    /\ events[i].relatedResourceId # Undefined =>
         events[i].relatedResourceId \in IdsOf(resources)

\* an event linked to a highlight has just been added
C2_Witness ==
  /\ last.op = "addEvent"
  /\ \E i \in 1..Len(events) :
       events[i].id = last.arg /\ events[i].relatedHighlightId # Undefined

\* C3: in the todo list every incomplete todo comes before every completed
\* one, and within each group createdAt does not increase.
C3_TodosSorted ==
  \A i, j \in 1..Len(todos) :
    i < j =>
      /\ todos[i].completed => todos[j].completed
      /\ todos[i].completed = todos[j].completed =>
           todos[i].createdAt >= todos[j].createdAt

\* a toggle has just moved a completed todo behind an incomplete one
C3_Witness ==
  /\ last.op = "toggleTodo"
  /\ Len(todos) >= 2
  /\ todos[Len(todos)].id = last.arg
  /\ todos[Len(todos)].completed
  /\ ~todos[1].completed

\* C4: the events are in order of date, and events of one date in order of
\* createdAt, newest first.
C4_EventsSorted ==
  \A i, j \in 1..Len(events) :
    i < j =>
      /\ events[i].date <= events[j].date
      /\ events[i].date = events[j].date =>
           events[i].createdAt >= events[j].createdAt

\* an event added later stands before an older event of a later day
C4_Witness ==
  /\ last.op = "addEvent"
  /\ Len(events) >= 2
  /\ events[1].id = last.arg
  /\ events[1].date < events[2].date
  /\ events[1].createdAt > events[2].createdAt

NewestFirst(s) ==
  \A i, j \in 1..Len(s) : i < j => s[i].createdAt >= s[j].createdAt

\* C5: highlights, resources and ideapad notes each are in order of createdAt,
\* newest first.
C5_ListsNewestFirst ==
  NewestFirst(highlights) /\ NewestFirst(resources) /\ NewestFirst(ideapadNotes)

\* an add has put a newer resource before an older one
C5_Witness ==
  /\ last.op = "addResource"
  /\ Len(resources) >= 2
  /\ resources[1].id = last.arg
  /\ resources[1].createdAt > resources[2].createdAt

\* a text that is empty or white space only
Blank(s) == s.rest = 0

\* C6: no collection holds an entity whose primary field (text, title or
\* name) is empty or white space only.
C6_NoBlankPrimaryField ==
  /\ \A i \in 1..Len(highlights) : ~Blank(highlights[i].text)
  /\ \A i \in 1..Len(todos) : ~Blank(todos[i].text)
  /\ \A i \in 1..Len(events) : ~Blank(events[i].title)
  /\ \A i \in 1..Len(resources) : ~Blank(resources[i].name)
  /\ \A i \in 1..Len(ideapadNotes) : ~Blank(ideapadNotes[i].text)

\* C7: whatever the collections hold, an add followed by the delete of the id
\* the add produced gives back the collection as it was, and for highlights
\* and resources the events as they were.
C7_AddThenDeleteRestores ==
  \A rnd \in Rands :
    LET id == generateId(now, rnd)
    IN  /\ FilterById(HighlightsAdd(highlights,
              Highlight(id, PlainText, ISOString(1, 0), COLORS(0), now)), id)
             = highlights
        /\ EventsDeleteHighlight(events, id) = events
        /\ FilterById(TodosAdd(todos, Todo(id, PlainText, FALSE, COLORS(1), now)), id)
             = todos
        /\ FilterById(EventsAdd(events,
              CalendarEvent(id, PlainText, 1, COLORS(3), now, Undefined, Undefined,
                            now)), id)
             = events
        /\ FilterById(ResourcesAdd(resources,
              Resource(id, PlainText, "note", PlainText, COLORS(5), now)), id)
             = resources
        /\ EventsDeleteResource(events, id) = events
        /\ FilterById(NotesAdd(ideapadNotes, IdeaNote(id, PlainText, COLORS(4), now)), id)
             = ideapadNotes

\* how often x occurs in the sequence s
Count(s, x) == Cardinality({i \in 1..Len(s) : s[i] = x})

\* C8: toggling a todo of the list twice leaves every todo with the fields it
\* had: its completed flag is back, and id, text, color and createdAt are as
\* before.
C8_ToggleTwiceRestores ==
  \A k \in 1..Len(todos) :
    LET twice == TodosToggle(TodosToggle(todos, todos[k].id), todos[k].id)
    IN  /\ Len(twice) = Len(todos)
        /\ \A i \in 1..Len(todos) : Count(twice, todos[i]) = Count(todos, todos[i])

\* a todo, made incomplete, is incomplete again after a toggle: its second
\* toggle at least
C8_Witness ==
  /\ last.op = "toggleTodo"
  /\ \E i \in 1..Len(todos) : todos[i].id = last.arg /\ ~todos[i].completed

Unique(s) == \A i, j \in 1..Len(s) : i # j => s[i].id # s[j].id

\* C9: no two entities of one collection have the same id.
C9_IdsUnique ==
  /\ Unique(highlights)
  /\ Unique(todos)
  /\ Unique(events)
  /\ Unique(resources)
  /\ Unique(ideapadNotes)

\* the collection that belongs to StorageKeys[i], after the step
CollectionAfter(i) ==
  CASE i = 1 -> highlights'
    [] i = 2 -> todos'
    [] i = 3 -> events'
    [] i = 4 -> resources'
    [] OTHER -> ideapadNotes'

\* C10: when the load ends, every collection whose stored document parses
\* holds that document's contents, whatever the other documents are.
C10_LoadFailureIsolated ==
  [][isLoading /\ ~isLoading' =>
       \A i \in 1..Len(StorageKeys) :
         storage[i].kind = "json" => CollectionAfter(i) = Parse(i, storage[i])]_vars

\* the collection that belongs to StorageKeys[i]
Collection(i) ==
  CASE i = 1 -> highlights
    [] i = 2 -> todos
    [] i = 3 -> events
    [] i = 4 -> resources
    [] OTHER -> ideapadNotes

\* C11: no storage key is written while isLoading is true: the save effect of a
\* loading render writes nothing and no step that ends with isLoading true
\* changes storage; so when the load ends, every document that was hydrated
\* into its collection still holds that contents.
C11_NoWriteBeforeLoad ==
  [][/\ isLoading =>
          \A k \in 0..Len(StorageKeys) :
            saveData(isLoading, storage, highlights, todos, events, resources,
                     ideapadNotes, k) = storage
     /\ isLoading' => storage' = storage
     /\ (isLoading /\ ~isLoading') =>
          \A i \in 1..Len(StorageKeys) :
            (storage[i].kind = "json" /\ CollectionAfter(i) = Parse(i, storage[i])) =>
              /\ storage'[i].kind = "json"
              /\ Parse(i, storage'[i]) = Parse(i, storage[i])]_vars

\* the load has just hydrated the todos from a stored document, which is kept
C11_Witness ==
  /\ ~isLoading
  /\ last.op = "none"
  /\ todos # <<>>
  /\ storage[2] = Stringify(todos)

\* C12: once the load has ended, and while no write throws, each storage key
\* holds the JSON text of its collection as it is now: every change has been
\* followed by its save.
C12_StorageFollowsMemory ==
  (~isLoading /\ ~writesMayThrow) =>
    \A i \in 1..Len(StorageKeys) : storage[i] = Stringify(Collection(i))

\* an event linked to nothing has been added and saved: its two optional
\* properties are not in the stored text
C12_Witness ==
  /\ last.op = "addEvent"
  /\ Len(events) > 0
  /\ storage[3] = Stringify(events)
  /\ storage[3].items # events

\* C13: when a stored document fails to parse at the load, no other key whose
\* document is a valid, non-empty list is overwritten with the empty list.
C13_FailureKeepsOtherDocuments ==
  [][(isLoading /\ ~isLoading' /\ LoadThrows(storage)) =>
       \A i \in 1..Len(StorageKeys) :
         (storage[i].kind = "json" /\ storage[i].items # <<>>) =>
           storage'[i] # Stringify(<<>>)]_vars

\* C14: a save in which setItem throws leaves the collections as the handler
\* set them (the load: as loaded; a toggle or delete of a todo: its result,
\* the other four untouched); the handlers stay enabled after it; and a save
\* in which no setItem throws, the first after a failed one included, leaves
\* every key with the JSON text of its collection.
C14_WriteFailureRecovers ==
  [][/\ (isLoading /\ ~isLoading') =>
          \A i \in 1..Len(StorageKeys) : CollectionAfter(i) = Loaded(storage, i)
     /\ (~isLoading /\ ~isLoading' /\ wrote' < Len(StorageKeys) /\ last' # last) =>
          /\ last'.op = "toggleTodo" => todos' = TodosToggle(todos, last'.arg)
          /\ last'.op = "deleteTodo" => todos' = FilterById(todos, last'.arg)
          /\ \A i \in {1, 3, 4, 5} : CollectionAfter(i) = Collection(i)
     /\ (~isLoading /\ wrote < Len(StorageKeys) /\ currentView = "todos" /\ todos # <<>>) =>
          ENABLED ToggleTodo /\ ENABLED DeleteTodo
     /\ (~isLoading' /\ wrote' = Len(StorageKeys)) =>
          \A i \in 1..Len(StorageKeys) : storage'[i] = Stringify(CollectionAfter(i))]_vars

\* a toggle has changed the todos while its save threw at the first setItem:
\* the stored todos are the old ones
C14_Witness ==
  /\ last.op = "toggleTodo"
  /\ wrote = 0
  /\ storage[2].kind = "json"
  /\ storage[2] # Stringify(todos)

\* the five collections, in the order of StorageKeys
Collections == <<highlights, todos, events, resources, ideapadNotes>>

\* the five collections after the step
CollectionsAfter == <<highlights', todos', events', resources', ideapadNotes'>>

\* C15: when the text of the imported file is not valid JSON, the collections
\* and what is stored stay as they were (onImport is not called) and the
\* error message is set.
C15_InvalidImportIsRejected ==
  [][(last'.op = "handleImport" /\ last'.arg.kind = "corrupt") =>
       /\ CollectionsAfter = Collections
       /\ storage' = storage
       /\ error' = InvalidJsonMessage]_vars

\* a file that does not parse has been imported over non-empty todos
C15_Witness ==
  /\ last.op = "handleImport"
  /\ last.arg = NotJsonText
  /\ error = InvalidJsonMessage
  /\ todos # <<>>

\* C16: the import of a document that has only a todos field makes the todos
\* that field's value and leaves the other four collections as they were.
C16_TodosOnlyImport ==
  [][(last'.op = "handleImport" /\ last'.arg \in TodosOnlyTexts) =>
       /\ todos' = Parse(2, Json(last'.arg.fields[2]))
       /\ \A i \in {1, 3, 4, 5} : CollectionAfter(i) = Collection(i)]_vars

\* a document with two todos only has been imported while there were
\* highlights and events
C16_Witness ==
  /\ last.op = "handleImport"
  /\ last.arg \in TodosOnlyTexts
  /\ Len(todos) = 2
  /\ highlights # <<>>
  /\ events # <<>>

\* C17: the import of the document an export produced gives the five
\* collections the export was made of, entity for entity and in their order.
C17_ExportImportRoundTrip ==
  [][(download # Null /\ last'.op = "handleImport" /\ last'.arg = download.text) =>
       CollectionsAfter = download.of]_vars

\* the export of five non-empty collections has been imported
C17_Witness ==
  /\ download # Null
  /\ last.op = "handleImport"
  /\ last.arg = download.text
  /\ \A i \in 1..Len(StorageKeys) : Collection(i) # <<>>
  /\ Collections = download.of

PopupOps == {"openItemPopup", "closeItemPopup", "jumpToView"}

\* C18: the selection is none or one {item, type}; openItemPopup(item, type)
\* makes it exactly that pair, whatever was selected, and closeItemPopup makes
\* it none, from a state with a selection and from a state without.
C18_SelectionIsLastOpened ==
  [][/\ selectedItem' = Null \/ DOMAIN selectedItem' = {"item", "type"}
     /\ last'.op = "openItemPopup" => selectedItem' = last'.arg
     /\ last'.op = "closeItemPopup" => selectedItem' = Null
     /\ \A p \in Clickable :
          /\ ENABLED (openItemPopup(p.item, p.type) /\ selectedItem' = p)
          /\ ~ENABLED (openItemPopup(p.item, p.type) /\ selectedItem' # p)
     /\ ENABLED (closeItemPopup /\ selectedItem' = Null)
     /\ ~ENABLED (closeItemPopup /\ selectedItem' # Null)]_vars

\* an item has been opened over another selection
C18_Witness ==
  /\ last.op = "openItemPopup"
  /\ last.removed = 1
  /\ selectedItem = last.arg

\* C19: opening the popup, closing it and its jump button leave the five
\* collections, what is stored and isLoading as they were; opening and
\* closing leave the current view too, and the jump makes it the view of the
\* item's type.
C19_PopupChangesNoCollection ==
  [][(last'.op \in PopupOps) =>
       /\ CollectionsAfter = Collections
       /\ storage' = storage
       /\ isLoading' = isLoading
       /\ (last' # last /\ last'.op # "jumpToView") => currentView' = currentView
       /\ (last' # last /\ last'.op = "jumpToView") =>
            currentView' = ItemView(last'.arg) /\ selectedItem' = Null]_vars

\* the jump button has taken the user to the todos, which are still there
C19_Witness ==
  /\ last.op = "jumpToView"
  /\ last.arg = "todo"
  /\ currentView = "todos"
  /\ selectedItem = Null
  /\ todos # <<>>

\* C20: changeMonth(delta), for delta -1 and +1 and every displayed month,
\* displays day 1 of the month delta months away: the month index stays in
\* 0..11, December is followed by January of the next year and January
\* preceded by December of the year before; no day is selected afterwards;
\* and the month displayed is the month the calls started from moved by the
\* sum of their deltas.
C20_ChangeMonthCarries ==
  [][\A delta \in Deltas :
       changeMonth(delta) =>
         LET m == cal.currentMonthDate
             to == cal'.currentMonthDate
             inYear == m.month + delta \in 0..11
         IN  /\ NewDate(m.year, m.month + delta, 1).day = 1
             /\ to.month \in 0..11
             /\ inYear => to.year = m.year /\ to.month = m.month + delta
             /\ (~inYear /\ delta = 1) => to.year = m.year + 1 /\ to.month = 0
             /\ (~inYear /\ delta = -1) => to.year = m.year - 1 /\ to.month = 11
             /\ cal'.selectedDate = NoDate
             /\ MonthIndex(to) = last'.arg.start + last'.arg.sum]_vars

\* twelve calls forward from January: the last one went from December into
\* January of the next year
C20_Witness ==
  /\ last.op = "changeMonth"
  /\ last.arg = [start |-> MonthIndex(CalInit.currentMonthDate), sum |-> 12]
  /\ cal.currentMonthDate = [year |-> ThisYear + 1, month |-> ThisMonth]
  /\ cal.selectedDate = NoDate

\* the add and the delete of the collection under StorageKeys[i]
AddOps == <<"addHighlight", "addTodo", "addEvent", "addResource", "addIdeapadNote">>
DeleteOps ==
  <<"deleteHighlight", "deleteTodo", "deleteEvent", "deleteResource",
    "deleteIdeapadNote">>

\* the operation of the step is one that takes x out of collection i: the
\* delete of its id, or for an event the cascade of what it refers to
MayLeave(i, x) ==
  \/ last'.op = DeleteOps[i] /\ x.id = last'.arg
  \/ i = 3 /\ last'.op = "deleteHighlight" /\ x.relatedHighlightId = last'.arg
  \/ i = 3 /\ last'.op = "deleteResource" /\ x.relatedResourceId = last'.arg

\* the operation of the step is the toggle of todo x, and y is x toggled
MayToggle(i, x, y) ==
  /\ i = 2
  /\ last'.op = "toggleTodo"
  /\ x.id = last'.arg
  /\ y = [x EXCEPT !.completed = ~x.completed]

\* C21: in every step after the load, an entity of a collection is in it
\* afterwards with all its fields as they were, unless the step is toggleTodo
\* of its id (then it is there with completed flipped and nothing else
\* changed) or the delete of its id or, for an event, the deleteHighlight or
\* deleteResource of what it refers to; and an entity that is in a collection
\* afterwards was in it, is such a toggled todo, or is the one the add of
\* the step made.
C21_EntitiesKeepTheirFields ==
  [][(~isLoading /\ ~isLoading') =>
       \A i \in 1..Len(StorageKeys) :
         LET pre == Collection(i)
             post == CollectionAfter(i)
         IN  /\ \A k \in 1..Len(pre) :
                  \/ Count(post, pre[k]) >= Count(pre, pre[k])
                  \/ MayLeave(i, pre[k])
                  \/ \E j \in 1..Len(post) : MayToggle(i, pre[k], post[j])
             /\ \A j \in 1..Len(post) :
                  \/ Count(pre, post[j]) >= Count(post, post[j])
                  \/ \E k \in 1..Len(pre) : MayToggle(i, pre[k], post[j])
                  \/ /\ last'.op = AddOps[i]
                     /\ post[j].id = last'.arg
                     /\ post[j].createdAt = now
                     /\ Len(post) = Len(pre) + 1]_vars

\* a todo has been toggled next to a todo that stayed as it was
C21_Witness ==
  /\ last.op = "toggleTodo"
  /\ Len(todos) = 2
  /\ todos[2].id = last.arg
  /\ todos[2].completed
  /\ todos[1].id # last.arg

\* the ids generateId can have made by now
IdsSoFar == {generateId(t, r) : t \in 1..now, r \in Rands}

\* the collections with an index in I are the same after the step
Same(I) == \A i \in I : CollectionAfter(i) = Collection(i)

\* no event refers to id
Unreferenced(id) ==
  \A i \in 1..Len(events) :
    events[i].relatedHighlightId # id /\ events[i].relatedResourceId # id

\* C22: in every state after the load and for every id, each delete can be
\* called; deleteTodo, deleteEvent and deleteIdeapadNote have no outcome that
\* changes a collection other than their own, deleteHighlight none that
\* changes one other than highlights and events, deleteResource none other
\* than resources and events; and with an id that no entity of its collection
\* has and no event refers to, a delete has no outcome that changes any of
\* the five collections.
C22_DeleteChangesOnlyItsOwn ==
  ~isLoading =>
    \A id \in IdsSoFar :
      /\ ENABLED deleteHighlight(id)
      /\ ~ENABLED (deleteHighlight(id) /\ ~Same({2, 4, 5}))
      /\ ENABLED deleteTodo(id)
      /\ ~ENABLED (deleteTodo(id) /\ ~Same({1, 3, 4, 5}))
      /\ ENABLED deleteEvent(id)
      /\ ~ENABLED (deleteEvent(id) /\ ~Same({1, 2, 4, 5}))
      /\ ENABLED deleteResource(id)
      /\ ~ENABLED (deleteResource(id) /\ ~Same({1, 2, 5}))
      /\ ENABLED deleteIdeapadNote(id)
      /\ ~ENABLED (deleteIdeapadNote(id) /\ ~Same({1, 2, 3, 4}))
      /\ (id \notin IdsOf(highlights) /\ Unreferenced(id)) =>
           ~ENABLED (deleteHighlight(id) /\ ~Same(1..5))
      /\ id \notin IdsOf(todos) => ~ENABLED (deleteTodo(id) /\ ~Same(1..5))
      /\ id \notin IdsOf(events) => ~ENABLED (deleteEvent(id) /\ ~Same(1..5))
      /\ (id \notin IdsOf(resources) /\ Unreferenced(id)) =>
           ~ENABLED (deleteResource(id) /\ ~Same(1..5))
      /\ id \notin IdsOf(ideapadNotes) =>
           ~ENABLED (deleteIdeapadNote(id) /\ ~Same(1..5))

\* an event that refers to a highlight has been deleted, and the highlight is
\* there
C22_Witness ==
  /\ last.op = "deleteEvent"
  /\ last.removed = 1
  /\ events = <<>>
  /\ highlights # <<>>

\* the step has flipped completed in the todos that have id, and only there
FlipsOnly(id) ==
  /\ Len(todos') = Len(todos)
  /\ IdsOf(todos') = IdsOf(todos)
  /\ \A k \in 1..Len(todos) :
       LET x == todos[k]
           y == IF x.id = id THEN [x EXCEPT !.completed = ~x.completed] ELSE x
       IN  Count(todos', y) = Count(todos, x)
  /\ id \notin IdsOf(todos) => todos' = todos

\* C23: every step of toggleTodo(id) leaves the todo list with the size and
\* the ids it had, the todos with that id with completed flipped and their
\* other fields as before, the other todos as before, and the other four
\* collections unchanged; and for an id that no todo has, the list toggleTodo
\* sets is the list as it is.
C23_ToggleChangesOneFlag ==
  [][\A id \in IdsSoFar :
       /\ toggleTodo(id) => FlipsOnly(id) /\ Same({1, 3, 4, 5})
       /\ id \notin IdsOf(todos) => TodosToggle(todos, id) = todos]_vars

\* the only todo has been toggled while there is a resource
C23_Witness ==
  /\ last.op = "toggleTodo"
  /\ Len(todos) = 1
  /\ todos[1].id = last.arg
  /\ todos[1].completed
  /\ resources # <<>>

\* the collection a quick-write target stands for, as its index in StorageKeys
TargetIndex(target) ==
  CASE target = "highlight" -> 1
    [] target = "todo" -> 2
    [] target = "resource" -> 4
    [] OTHER -> 5

\* the step has put one new entity into collection i, the one the add made,
\* and has changed nothing else in the collections or the selection
AddsOne(i) ==
  LET pre == Collection(i)
      post == CollectionAfter(i)
  IN  /\ Len(post) = Len(pre) + 1
      /\ \A k \in 1..Len(pre) : Count(post, pre[k]) >= Count(pre, pre[k])
      /\ \E j \in 1..Len(post) :
           /\ post[j].id = last'.arg
           /\ Count(post, post[j]) = Count(pre, post[j]) + 1
           /\ i = 2 => post[j].completed = FALSE
      /\ Same((1..Len(StorageKeys)) \ {i})
      /\ selectedItem' = selectedItem

\* C24: a submit of the quick-write form or of a section form whose input is
\* accepted puts exactly one new entity into the collection of the form, or
\* of the quick-write target, a todo with completed false, and leaves the
\* other four collections and the selection as they were.
C24_AddInsertsOne ==
  [][(last' # last \/ CollectionsAfter # Collections) =>
     /\ \A text \in QuickTexts, target \in QuickTargets, rnd \in Rands :
          (~Falsy(Trim(text)) /\ handleQuickWriteSubmit(text, target, rnd)) =>
            AddsOne(TargetIndex(target))
     /\ \A text \in Texts, rnd \in Rands :
          /\ (~Falsy(Trim(text)) /\ \E date \in Days : handleAddHighlight(text, date, rnd)) =>
               AddsOne(1)
          /\ (~Falsy(Trim(text)) /\ handleAddTodo(text, rnd)) => AddsOne(2)
          /\ (~Falsy(Trim(text)) /\ cal.selectedDate # NoDate /\ handleAddEvent(text, rnd)) =>
               AddsOne(3)
          /\ (~Falsy(Trim(text)) /\ handleAddNote(text, rnd)) => AddsOne(5)
          /\ \A content \in Texts :
               ( /\ ~Falsy(Trim(text))
                 /\ ~Falsy(Trim(content))
                 /\ \E type \in {"link", "note"} : handleAddResource(text, type, content, rnd)) =>
                 AddsOne(4)]_vars

\* a note has been added through the quick-write form while the popup shows
\* a todo
C24_Witness ==
  /\ last.op = "addIdeapadNote"
  /\ Len(ideapadNotes) = 1
  /\ selectedItem # Null
  /\ selectedItem.type = "todo"
  /\ todos # <<>>

GroupsBy(acc, s, keys) ==
  /\ DOMAIN acc = {keys[i] : i \in 1..Len(s)}
  /\ \A k \in DOMAIN acc :
       LET K == {i \in 1..Len(s) : keys[i] = k}
       IN  /\ Len(acc[k]) = Cardinality(K)
           /\ \A j \in 1..Len(acc[k]) : acc[k][j] = s[NthOf(K, j)]

C27_ToggleTwiceRestoresOrder ==
  \A k \in 1..Len(todos) :
    TodosToggle(TodosToggle(todos, todos[k].id), todos[k].id) = todos

\* the collection an item of the type is kept in
CollectionNamed(type) ==
  CASE type = "highlight" -> highlights
    [] type = "todo" -> todos
    [] type = "event" -> events
    [] type = "resource" -> resources
    [] OTHER -> ideapadNotes

\* C28: whenever a selection is held, the selected item equals an entity of
\* the collection its type names: the popup shows no deleted and no outdated
\* entity.
C28_SelectionIsPresent ==
  selectedItem # Null =>
    \E i \in 1..Len(CollectionNamed(selectedItem.type)) :
      CollectionNamed(selectedItem.type)[i] = selectedItem.item

\* C30: an event made with the add-event form, after the user entered a time
\* in the form's time input, has that time in its time field.
C30_EventKeepsEnteredTime ==
  [][\A title \in Texts, rnd \in Rands :
       (/\ cal.newEventTime # ""
        /\ handleAddEvent(title, rnd)
        /\ Len(events') > Len(events))
       => \E i \in 1..Len(events') :
            /\ events'[i].id = generateId(now, rnd)
            /\ events'[i].createdAt = now
            /\ ClockTime(events'[i].time) = cal.newEventTime]_vars

\* the collections after onImport was called with the parsed text
ImportedFrom(text) ==
  LET data == importedData(text)
  IN  <<Imported(data, 1, highlights), Imported(data, 2, todos),
        Imported(data, 3, events), Imported(data, 4, resources),
        Imported(data, 5, ideapadNotes)>>

\* onImport got the parsed document and the message is cleared
AttemptSucceeded(text) ==
  /\ text.kind = "object"
  /\ CollectionsAfter = ImportedFrom(text)
  /\ error' = Null

\* onImport was not called and a message is set
AttemptFailed ==
  /\ CollectionsAfter = Collections
  /\ error' # Null

\* C29: with any number of reads pending and completing in any order, an
\* attempt that completes either gives onImport the parsed document and
\* clears the message, or leaves the collections alone and sets the message,
\* never both and never neither; no other step changes the message, so it is
\* shown exactly when the attempt that completed last failed.
C29_AttemptEndsOneWay ==
  [][IF Len(reading') < Len(reading)
     THEN \E i \in 1..Len(reading) :
            /\ reading' = Without(reading, i)
            /\ AttemptSucceeded(reading[i]) \/ AttemptFailed
            /\ ~(AttemptSucceeded(reading[i]) /\ AttemptFailed)
     ELSE error' = error]_vars

\* todos were imported from one file, then the read of another failed and
\* left its message, and a further read is still pending
C29_Witness ==
  /\ last.op \in {"handleImport", "readerError"}
  /\ error # Null
  /\ todos # <<>>
  /\ reading # <<>>

====
